---- MODULE Spec2Model ----
(***************************************************************************)
(* voro-js: the Emscripten binding of voro++ (src/src/voro_wrapper.cpp).   *)
(*                                                                         *)
(* The model follows one VoronoiContext3D.  Geometry is kept exact by      *)
(* restricting the inputs to a slab configuration: every particle has the  *)
(* same y and z (PY, PZ) and walls have their normal along x, so that      *)
(* every cell is a box with x extent [lo,hi] and the y and z extents of    *)
(* the domain.  Lengths are integers in quarter units (the domain [0,10]^3 *)
(* of the tests is [0,40]^3), which keeps bisectors and centroids          *)
(* integral.  Particle positions are pairwise distinct.                    *)
(***************************************************************************)
EXTENDS Integers, Sequences, FiniteSets, TLC

VARIABLES particles, walls, res, hist, cell3d, loader
vars == <<particles, walls, res, hist, cell3d, loader>>

\* ---------------------------------------------------------------- bounds
MaxParticles == 2
MaxWalls == 2
MaxBatch == 2

\* ------------------------------------------------- domain of the container
minX == 0
maxX == 40
minY == 0
maxY == 40
minZ == 0
maxZ == 40
\* grid blocks per axis handed to voro::container by the constructor
NBlocks == 6
\* the y and z shared by all particles of the slab configuration
PY == 4
PZ == 4

Ids == {0, 1, 2}
\* an id that no particle ever carries
AbsentId == 999
QueryIds == Ids \cup {AbsentId}
\* x positions offered to addPoint/addPoints; 44 lies outside the domain
PosX == {4, 20, 24, 44}

\* What a read of an uninitialised int/double may yield: the zero of a
\* fresh stack, or the stale non-zero value an earlier call left there.
Indeterminate == {0, 7}

NoArg == <<>>
NoOut == <<>>

\* --------------------------------------------------------------- container
\* voro::container::put: a position outside [minX,maxX) is not stored.
InDomain(x) == x >= minX /\ x < maxX

Block(x) == ((x - minX) * NBlocks) \div (maxX - minX)

RECURSIVE InsertAt(_, _, _)
\* Position kept by the block structure: after every particle of a block
\* <= the new one's, so that the sequence is c_loop_all's iteration order.
InsertAt(P, p, k) ==
    IF k > Len(P) THEN Append(P, p)
    ELSE IF Block(P[k].x) > Block(p.x)
         THEN SubSeq(P, 1, k - 1) \o <<p>> \o SubSeq(P, k, Len(P))
         ELSE InsertAt(P, p, k + 1)

Put(P, id, x) ==
    IF InDomain(x) THEN InsertAt(P, [id |-> id, x |-> x], 1) ELSE P

RECURSIVE PutAll(_, _, _)
PutAll(P, ids, xs) ==
    IF ids = <<>> THEN P
    ELSE PutAll(Put(P, Head(ids), Head(xs)), Tail(ids), Tail(xs))

\* ------------------------------------------------------------------- cells
\* A cell under computation, in coordinates relative to its particle:
\* x extent [lo,hi], and the neighbour ids of its two x faces.  The y and z
\* extents stay those of the domain.
InitCell(x) == [lo |-> minX - x, hi |-> maxX - x, nlo |-> -1, nhi |-> -2]

\* voronoicell::nplane(n,0,0,rsq,pid): keeps the points v with v*n < rsq/2.
\* Returns false, leaving the cell as it was, when nothing would be kept.
\* (n # 0; rsq/(2n) is integral for every plane of the model.)
Plane(c, n, rsq, pid) ==
    IF n > 0
    THEN LET cut == rsq \div (2 * n) IN
         IF c.lo >= cut THEN [ok |-> FALSE, c |-> c]
         ELSE IF c.hi <= cut THEN [ok |-> TRUE, c |-> c]
         ELSE [ok |-> TRUE, c |-> [c EXCEPT !.hi = cut, !.nhi = pid]]
    ELSE LET cut == -(rsq \div (2 * (-n))) IN
         IF c.hi <= cut THEN [ok |-> FALSE, c |-> c]
         ELSE IF c.lo >= cut THEN [ok |-> TRUE, c |-> c]
         ELSE [ok |-> TRUE, c |-> [c EXCEPT !.lo = cut, !.nlo = pid]]

Volume(c) == (c.hi - c.lo) * (maxY - minY) * (maxZ - minZ)

\* voronoicell::centroid: the centroid relative to the particle.
Centroid(c) ==
    <<(c.lo + c.hi) \div 2,
      ((minY - PY) + (maxY - PY)) \div 2,
      ((minZ - PZ) + (maxZ - PZ)) \div 2>>

\* ------------------------------------------------------------------- walls
\* A response of a JavaScript wall's cut_cell: undefined, null, or an
\* object whose cut field is true, false or absent and whose nx, ny, nz, d
\* are numbers or absent.
JsUndefined == [tag |-> "undefined", cut |-> "absent", num |-> FALSE, nx |-> 0, d |-> 0]
JsNull == [tag |-> "null", cut |-> "absent", num |-> FALSE, nx |-> 0, d |-> 0]
JsNoCutField == [tag |-> "object", cut |-> "absent", num |-> FALSE, nx |-> 0, d |-> 0]
JsDecline == [tag |-> "object", cut |-> "false", num |-> FALSE, nx |-> 0, d |-> 0]
JsCutNoNumbers == [tag |-> "object", cut |-> "true", num |-> FALSE, nx |-> 0, d |-> 0]
JsCut(nx, d) == [tag |-> "object", cut |-> "true", num |-> TRUE, nx |-> nx, d |-> d]

JsResponses ==
    {JsUndefined, JsNull, JsNoCutField, JsDecline, JsCutNoNumbers, JsCut(1, 16)}

\* The well-formed ones
GoodResponses == {JsDecline, JsCut(1, 16)}

Malformed(r) == r \in {JsUndefined, JsNull, JsNoCutField, JsCutNoNumbers}

\* emscripten::val::as<bool>() of a field: undefined converts to false.
AsBool(cut) == cut = "true"

\* The walls offered to addWallPlane: normal (n,0,0) and displacement a; the
\* wall keeps the points X with X*n < a, which for (1,-8), the wall of the
\* tests, is nothing of the domain.
PlaneWalls == {[n |-> 1, a |-> -8]}

\* voro::wall_plane's default id
DefaultWallId == -99

\* What the build may do where the code's behaviour is undefined or depends
\* on the embind build:
\*   dz   a call through a pointer to a destroyed wall: the object's memory
\*        is still intact, or the call traps;
\*   conv as<double>() of undefined: embind throws a TypeError (a build
\*        with assertions), or passes NaN to plane(), for which every
\*        vertex test is undecided: plane() returns false and leaves the
\*        cell as it was;
\*   oob  a write past the end of relaxVoronoi's array: the program traps,
\*        or the write lands in other memory.
Envs == [dz : {"intact", "trap"}, conv : {"throw", "nan"}, oob : {"trap", "silent"}]

\* The environments that differ in their effect on a container with walls W
\* (no destroyed wall: dz is immaterial; no numberless response: conv is).
EnvsFor(W) ==
    { e \in Envs :
        /\ (\A k \in 1..Len(W) : W[k].live) => e.dz = "intact"
        /\ (\A k \in 1..Len(W) : W[k].kind = "js" => W[k].resp # JsCutNoNumbers)
              => e.conv = "throw" }

\* WallJS::cut_cell_internal
CutCellInternal(w, c, env) ==
    IF w.resp.tag = "object" /\ AsBool(w.resp.cut)
    THEN IF w.resp.num
         THEN [st |-> "true", c |-> Plane(c, w.resp.nx, w.resp.d, 0).c]
         ELSE IF env.conv = "throw" THEN [st |-> "throw", c |-> c]
              ELSE [st |-> "true", c |-> c]
    ELSE [st |-> "false", c |-> c]

\* wall_plane::cut_cell
CutCellPlane(w, c, x) ==
    LET r == Plane(c, w.n, 2 * (w.a - x * w.n), w.id) IN
    [st |-> IF r.ok THEN "true" ELSE "false", c |-> r.c]

\* The virtual call (*wp)->cut_cell(c,x,y,z) of wall_list::apply_walls.
CutCell(w, c, x, env) ==
    IF ~w.live /\ env.dz = "trap" THEN [st |-> "trap", c |-> c]
    ELSE IF w.kind = "js" THEN CutCellInternal(w, c, env)
    ELSE CutCellPlane(w, c, x)

RECURSIVE ApplyWalls(_, _, _, _, _)
\* wall_list::apply_walls: the walls in registration order, stopping at the
\* first whose cut_cell does not return true.
ApplyWalls(W, k, c, x, env) ==
    IF k > Len(W) THEN [st |-> "true", c |-> c]
    ELSE LET r == CutCell(W[k], c, x, env) IN
         IF r.st = "true" THEN ApplyWalls(W, k + 1, r.c, x, env) ELSE r

RECURSIVE CutNeighbors(_, _, _, _)
\* The bisector planes of the other particles.
CutNeighbors(P, i, k, c) ==
    IF k > Len(P) THEN [st |-> "true", c |-> c]
    ELSE IF k = i THEN CutNeighbors(P, i, k + 1, c)
    ELSE LET n == P[k].x - P[i].x
             r == Plane(c, n, n * n, P[k].id)
         IN  IF r.ok THEN CutNeighbors(P, i, k + 1, r.c)
             ELSE [st |-> "false", c |-> c]

\* container::compute_cell for the i-th particle of the loop: st is "true"
\* when a cell was computed, "false" when compute_cell returned false, and
\* "trap"/"throw" when the computation did not return normally.
ComputeCell(P, W, i, env) ==
    LET w == ApplyWalls(W, 1, InitCell(P[i].x), P[i].x, env) IN
    IF w.st = "true" THEN CutNeighbors(P, i, 1, w.c) ELSE w

\* -------------------------------------------------------------- extraction
\* voronoicell::vertices(x,y,z,v): the corners in global coordinates, x
\* fastest (the order voronoicell::init gives the corners of a box).
Vertices(c, x) ==
    [k \in 1..8 |->
        <<IF (k - 1) % 2 = 0 THEN x + c.lo ELSE x + c.hi,
          IF ((k - 1) \div 2) % 2 = 0 THEN minY ELSE maxY,
          IF (k - 1) \div 4 = 0 THEN minZ ELSE maxZ>>]

\* voronoicell::face_vertices: for every face, its number of vertices and
\* then its vertex indices.  Every cell of the slab configuration is a box.
FaceVertices ==
    <<4, 1, 3, 2, 0,  4, 1, 5, 7, 3,  4, 1, 0, 4, 5,
      4, 2, 6, 4, 0,  4, 2, 3, 7, 6,  4, 4, 6, 7, 5>>

\* voronoicell::face_orders
FaceOrders == <<4, 4, 4, 4, 4, 4>>

\* voronoicell_neighbor::neighbors, face by face
Neighbors(c) == <<-5, c.nhi, -3, c.nlo, -4, -6>>

RECURSIVE DecodeFaces(_, _, _, _)
\* extract_cell's loop over face_orders: fv_cnt entries from fv_offset on,
\* then fv_offset += fv_cnt.
DecodeFaces(fv, fo, k, off) ==
    IF k > Len(fo) THEN <<>>
    ELSE <<[j \in 1..fo[k] |-> fv[off + j]]>>
         \o DecodeFaces(fv, fo, k + 1, off + fo[k])

EdgeLess(a, b) == a[1] < b[1] \/ (a[1] = b[1] /\ a[2] < b[2])

RECURSIVE SortedEdges(_)
\* the order of std::set<std::vector<int>>
SortedEdges(E) ==
    IF E = {} THEN <<>>
    ELSE LET m == CHOOSE e \in E : \A f \in E \ {e} : EdgeLess(e, f)
         IN  <<m>> \o SortedEdges(E \ {m})

\* Edges from the consecutive pairs of each face without the pair that
\* closes the loop.
EdgesOpenLoops(faces) ==
    SortedEdges(UNION {
      { LET v1 == faces[f][j]
            v2 == faces[f][j + 1]
        IN  IF v1 > v2 THEN <<v2, v1>> ELSE <<v1, v2>>
        : j \in 1..(Len(faces[f]) - 1) } : f \in 1..Len(faces) })

\* extract_cell's unique edges of the faces
Edges(faces) ==
    SortedEdges(UNION {
      { LET v1 == faces[f][j]
            v2 == faces[f][(j % Len(faces[f])) + 1]
        IN  IF v1 > v2 THEN <<v2, v1>> ELSE <<v1, v2>>
        : j \in 1..Len(faces[f]) } : f \in 1..Len(faces) })

\* The faces and edges extract_cell builds for a box
BoxFaces == DecodeFaces(FaceVertices, FaceOrders, 1, 0)
BoxEdges == Edges(BoxFaces)

\* An extraction that fills position, id, volume and vertices only.
ExtractCellNoFaces(c, p) ==
    [id |-> p.id,
     position |-> <<p.x, PY, PZ>>,
     volume |-> Volume(c),
     vertices |-> Vertices(c, p.x),
     faces |-> <<>>,
     edges |-> <<>>,
     neighbors |-> <<>>]

\* An extraction that does not ask for the volume and leaves it 0.
ExtractCellNoVolume(c, p) ==
    [id |-> p.id,
     position |-> <<p.x, PY, PZ>>,
     volume |-> 0,
     vertices |-> Vertices(c, p.x),
     faces |-> BoxFaces,
     edges |-> BoxEdges,
     neighbors |-> Neighbors(c)]

\* VoronoiContext3D::extract_cell
ExtractCell(c, p) ==
    [id |-> p.id,
     position |-> <<p.x, PY, PZ>>,
     volume |-> Volume(c),
     vertices |-> Vertices(c, p.x),
     faces |-> BoxFaces,
     edges |-> BoxEdges,
     neighbors |-> Neighbors(c)]

\* "VoronoiCell cell;": the vectors are empty, id, position and volume are
\* not initialised.
DefaultCells ==
    { [id |-> g, position |-> <<g, g, g>>, volume |-> g, vertices |-> <<>>,
       faces |-> <<>>, edges |-> <<>>, neighbors |-> <<>>]
      : g \in Indeterminate }

\* ----------------------------------------------------------------- queries
Result(op, arg, err, out) == [op |-> op, arg |-> arg, err |-> err, out |-> out]

RECURSIVE AllCellsFrom(_, _, _, _, _)
\* The do/while of getAllCells from the k-th particle on; cells is the
\* vector built so far.
AllCellsFrom(P, W, k, env, cells) ==
    IF k > Len(P) THEN [err |-> "none", out |-> cells]
    ELSE LET r == ComputeCell(P, W, k, env) IN
         IF r.st = "true"
         THEN AllCellsFrom(P, W, k + 1, env, Append(cells, ExtractCell(r.c, P[k])))
         ELSE IF r.st = "false" THEN AllCellsFrom(P, W, k + 1, env, cells)
         ELSE [err |-> r.st, out |-> NoOut]

\* A loop that advances before its first body: the first particle of the
\* iteration gets no cell.
GetAllCellsSkipFirst(P, W, env) == AllCellsFrom(P, W, 2, env, <<>>)

\* VoronoiContext3D::getAllCells
GetAllCellsOut(P, W, env) == AllCellsFrom(P, W, 1, env, <<>>)

RECURSIVE CellByIdFrom(_, _, _, _, _, _)
\* The do/while of getCellById from the k-th particle on; cell is the
\* function's local "VoronoiCell cell".
CellByIdFrom(P, W, id, k, env, cell) ==
    IF k > Len(P) THEN [err |-> "none", out |-> cell]
    ELSE IF P[k].id # id THEN CellByIdFrom(P, W, id, k + 1, env, cell)
    ELSE LET r == ComputeCell(P, W, k, env) IN
         IF r.st = "true" THEN [err |-> "none", out |-> ExtractCell(r.c, P[k])]
         ELSE IF r.st = "false" THEN CellByIdFrom(P, W, id, k + 1, env, cell)
         ELSE [err |-> r.st, out |-> NoOut]

\* A lookup that computes the cell as if no wall were registered.
GetCellByIdNoWalls(P, W, id, env, cell) == CellByIdFrom(P, <<>>, id, 1, env, cell)

\* A lookup that gives up at the first particle carrying the id, whether or
\* not its cell could be computed.
GetCellByIdFirstMatch(P, W, id, env, cell) ==
    LET ks == {k \in 1..Len(P) : P[k].id = id} IN
    IF ks = {} THEN [err |-> "none", out |-> cell]
    ELSE LET k == CHOOSE m \in ks : \A n \in ks : m <= n
             r == ComputeCell(P, W, k, env)
         IN  IF r.st = "true" THEN [err |-> "none", out |-> ExtractCell(r.c, P[k])]
             ELSE IF r.st = "false" THEN [err |-> "none", out |-> cell]
             ELSE [err |-> r.st, out |-> NoOut]

\* VoronoiContext3D::getCellById
GetCellByIdOut(P, W, id, env, cell) == CellByIdFrom(P, W, id, 1, env, cell)

RECURSIVE RelaxFrom(_, _, _, _, _)
\* The do/while of relaxVoronoi; pts is relaxed_points.
RelaxFrom(P, W, k, env, pts) ==
    IF k > Len(P) THEN [err |-> "none", out |-> pts]
    ELSE LET r == ComputeCell(P, W, k, env) IN
         IF r.st = "true"
         THEN IF P[k].id >= 0 /\ P[k].id < Len(pts)
              THEN RelaxFrom(P, W, k + 1, env,
                             [pts EXCEPT ![P[k].id + 1] = Centroid(r.c)])
              ELSE IF env.oob = "trap" THEN [err |-> "trap", out |-> NoOut]
              ELSE RelaxFrom(P, W, k + 1, env, pts)
         ELSE IF r.st = "false" THEN RelaxFrom(P, W, k + 1, env, pts)
         ELSE [err |-> r.st, out |-> NoOut]

\* VoronoiContext3D::relaxVoronoi: relaxed_points has total_particles()
\* zero points to begin with.
RelaxVoronoiOut(P, W, env) ==
    RelaxFrom(P, W, 1, env, [k \in 1..Len(P) |-> <<0, 0, 0>>])

\* ----------------------------------------------------------------- actions
PosFree(x) == \A k \in 1..Len(particles) : particles[k].x # x

SeqsUpTo(S, n) == UNION { [1..m -> S] : m \in 0..n }

Min(a, b) == IF a < b THEN a ELSE b

\* How many more particles the model lets the container take, and the
\* offered positions that no particle occupies.
Room == MaxParticles - Len(particles)
FreeX == { x \in PosX : PosFree(x) }

Distinct(xs) == \A i, j \in 1..Len(xs) : i # j => xs[i] # xs[j]

\* VoronoiContext3D::addPoint
AddPoint(id, x) ==
    /\ Len(particles) < MaxParticles
    /\ PosFree(x)
    /\ particles' = Put(particles, id, x)
    /\ res' = Result("addPoint", NoArg, "none", NoOut)
    /\ UNCHANGED walls

\* An addPoints that inserts as it goes and raises where an array runs out.
AddPointsPartial(ids, xs, ys, zs) ==
    /\ Len(particles) + Len(ids) <= MaxParticles
    /\ Distinct(xs) /\ \A i \in 1..Len(xs) : PosFree(xs[i])
    /\ LET lens == [sameLength |->
                      Cardinality({Len(ids), Len(xs), Len(ys), Len(zs)}) = 1]
           n == Min(Min(Len(ids), Len(xs)), Min(Len(ys), Len(zs)))
       IN  /\ res' = Result("addPoints", lens,
                            IF lens.sameLength THEN "none" ELSE "runtime_error",
                            NoOut)
           /\ particles' = PutAll(particles, SubSeq(ids, 1, n), SubSeq(xs, 1, n))
    /\ UNCHANGED walls

\* VoronoiContext3D::addPoints
AddPoints(ids, xs, ys, zs) ==
    /\ Len(particles) + Len(ids) <= MaxParticles
    /\ Distinct(xs) /\ \A i \in 1..Len(xs) : PosFree(xs[i])
    /\ LET lens == [sameLength |->
                      Cardinality({Len(ids), Len(xs), Len(ys), Len(zs)}) = 1] IN
       IF Len(ids) # Len(xs) \/ Len(ids) # Len(ys) \/ Len(ids) # Len(zs)
       THEN /\ res' = Result("addPoints", lens, "runtime_error", NoOut)
            /\ UNCHANGED particles
       ELSE /\ res' = Result("addPoints", lens, "none", NoOut)
            /\ particles' = PutAll(particles, ids, xs)
    /\ UNCHANGED walls

\* VoronoiContext3D::addWallPlane: the wall_plane is a local of the method,
\* destroyed when it returns; the container keeps its address.
AddWallPlane(n, a) ==
    /\ Len(walls) < MaxWalls
    /\ walls' = Append(walls, [kind |-> "plane", n |-> n, a |-> a,
                               id |-> DefaultWallId, live |-> FALSE])
    /\ res' = Result("addWallPlane", NoArg, "none", NoOut)
    /\ UNCHANGED particles

\* VoronoiContext3D::addWallJS: the proxy lives on the heap.
AddWallJS(r) ==
    /\ Len(walls) < MaxWalls
    /\ walls' = Append(walls, [kind |-> "js", resp |-> r, live |-> TRUE])
    /\ res' = Result("addWallJS", NoArg, "none", NoOut)
    /\ UNCHANGED particles

\* A clear that leaves the particles of the first block in place.
ClearKeepsFirstBlock ==
    /\ particles' = SelectSeq(particles, LAMBDA p : Block(p.x) = 0)
    /\ res' = Result("clear", NoArg, "none", NoOut)
    /\ UNCHANGED walls

\* VoronoiContext3D::clear: container::clear empties every block and
\* leaves the wall list alone.
Clear ==
    /\ particles' = <<>>
    /\ res' = Result("clear", NoArg, "none", NoOut)
    /\ UNCHANGED walls

GetAllCells ==
    /\ \E env \in EnvsFor(walls) :
         LET r == GetAllCellsOut(particles, walls, env) IN
         res' = Result("getAllCells", NoArg, r.err, r.out)
    /\ UNCHANGED <<particles, walls>>

GetCellById(id) ==
    /\ \E env \in EnvsFor(walls), cell \in DefaultCells :
         LET r == GetCellByIdOut(particles, walls, id, env, cell) IN
         res' = Result("getCellById", id, r.err, r.out)
    /\ UNCHANGED <<particles, walls>>

\* A relaxation that also moves every particle of the container to the
\* centroid of its cell.
RelaxVoronoiMoves ==
    /\ \E env \in EnvsFor(walls) :
         LET r == RelaxVoronoiOut(particles, walls, env) IN
         /\ res' = Result("relaxVoronoi", NoArg, r.err, r.out)
         /\ particles' =
              [k \in 1..Len(particles) |->
                 [particles[k] EXCEPT
                    !.x = @ + Centroid(ComputeCell(particles, walls, k, env).c)[1]]]
    /\ UNCHANGED walls

RelaxVoronoi ==
    /\ \E env \in EnvsFor(walls) :
         LET r == RelaxVoronoiOut(particles, walls, env) IN
         res' = Result("relaxVoronoi", NoArg, r.err, r.out)
    /\ UNCHANGED <<particles, walls>>

\* ----------------------------------------------------------- specification
\* hist is a history variable: the (id, x) pairs handed to addPoint and
\* addPoints since the container was constructed or last cleared, and
\* whether a clear() has emptied a container that held particles
\* (SpecReuse).  SpecOrder and SpecById keep in it what the last query did:
\* the cut_cell calls per particle, and the cells the lookup computed.
NoHist == [puts |-> <<>>, reused |-> FALSE]

\* cell3d is a standalone VoronoiCell3D and loader the state of the module
\* loader of index.ts; both are described where their operations are.
NoCell3D == [init |-> FALSE]

\* ------------------------------------------------------------------ loader
\* index.ts: "let voroModule: VoroAPI | null = null".  An API object is
\* identified by the WebAssembly module instance it was built from; module
\* 0 stands for null.
MaxCalls == 4

Null == [module |-> 0, keys |-> {}]

\* The object literal initializeVoro builds from a module instance.
ApiObject(m) ==
    [module |-> m,
     keys |-> {"VoronoiContext3D", "VoronoiCell3D", "VectorInt", "VectorDouble"}]

\* loader.created counts the invocations of createVoroModule, loader.calls
\* holds one record per call of initializeVoro: where it stands, the module
\* instance it awaits (0: none), what it resolved with, and (for the
\* properties) what the first resolved call had resolved with when this
\* call began.
NoLoader == [voroModule |-> Null, created |-> 0, calls |-> <<>>, first |-> Null]

\* initializeVoro up to its return or its await
InitializeVoro ==
    /\ Len(loader.calls) < MaxCalls
    /\ IF loader.voroModule # Null
       THEN loader' = [loader EXCEPT !.calls = Append(@,
                [pc |-> "resolved", module |-> 0, out |-> loader.voroModule,
                 seen |-> loader.first])]
       ELSE loader' = [loader EXCEPT
                !.created = @ + 1,
                !.calls = Append(@,
                   [pc |-> "awaiting", module |-> loader.created + 1,
                    out |-> Null, seen |-> loader.first])]
    /\ UNCHANGED <<particles, walls, res, hist, cell3d>>

\* initializeVoro from the settling of "await createVoroModule()" on
InitializeVoroResume(i) ==
    /\ i \in 1..Len(loader.calls)
    /\ loader.calls[i].pc = "awaiting"
    /\ LET api == ApiObject(loader.calls[i].module) IN
       loader' = [loader EXCEPT
                !.voroModule = api,
                !.calls[i].pc = "resolved",
                !.calls[i].out = api,
                !.first = IF @ = Null THEN api ELSE @]
    /\ UNCHANGED <<particles, walls, res, hist, cell3d>>

Init ==
    /\ particles = <<>>
    /\ walls = <<>>
    /\ res = Result("new", NoArg, "none", NoOut)
    /\ hist = NoHist
    /\ cell3d = NoCell3D
    /\ loader = NoLoader

\* The arrays offered to addPoints: none is longer than the room the model
\* leaves in the container; the ids are BatchIds, the x are unoccupied
\* positions in ascending order.
BatchLen == Min(MaxBatch, Room)
BatchIds == {0, 1}
Ascending(xs) == \A i \in 1..Len(xs) - 1 : xs[i] < xs[i + 1]
BatchXs == { xs \in SeqsUpTo(FreeX, BatchLen) : Ascending(xs) }

Next ==
    \/ \E id \in Ids, x \in PosX : AddPoint(id, x) /\ UNCHANGED <<hist, cell3d, loader>>
    \/ \E ids \in SeqsUpTo(BatchIds, BatchLen), xs \in BatchXs,
          ys \in SeqsUpTo({PY}, BatchLen), zs \in SeqsUpTo({PZ}, BatchLen) :
          AddPoints(ids, xs, ys, zs) /\ UNCHANGED <<hist, cell3d, loader>>
    \/ \E w \in PlaneWalls : AddWallPlane(w.n, w.a) /\ UNCHANGED <<hist, cell3d, loader>>
    \/ \E r \in GoodResponses : AddWallJS(r) /\ UNCHANGED <<hist, cell3d, loader>>
    \/ Clear /\ UNCHANGED <<hist, cell3d, loader>>
    \/ GetAllCells /\ UNCHANGED <<hist, cell3d, loader>>
    \/ \E id \in QueryIds : GetCellById(id) /\ UNCHANGED <<hist, cell3d, loader>>
    \/ RelaxVoronoi /\ UNCHANGED <<hist, cell3d, loader>>

Spec == Init /\ [][Next]_vars

\* Custom walls with every kind of response, on a container filled by
\* addPoint.
NextJs ==
    \/ \E id \in Ids, x \in PosX : AddPoint(id, x) /\ UNCHANGED <<hist, cell3d, loader>>
    \/ \E r \in JsResponses : AddWallJS(r) /\ UNCHANGED <<hist, cell3d, loader>>
    \/ GetAllCells /\ UNCHANGED <<hist, cell3d, loader>>
    \/ \E id \in QueryIds : GetCellById(id) /\ UNCHANGED <<hist, cell3d, loader>>

SpecJs == Init /\ [][NextJs]_vars

\* A container without walls that is filled, cleared and filled again, with
\* hist recording what went in since the last clear.
InX == { x \in PosX : InDomain(x) }

Pairs(ids, xs) == [k \in 1..Len(ids) |-> [id |-> ids[k], x |-> xs[k]]]

NextReuse ==
    \/ \E id \in Ids, x \in InX :
          /\ AddPoint(id, x)
          /\ hist' = [hist EXCEPT !.puts = Append(@, [id |-> id, x |-> x])]
          /\ UNCHANGED <<cell3d, loader>>
    \/ \E ids \in SeqsUpTo(BatchIds, BatchLen), xs \in BatchXs,
          ys \in SeqsUpTo({PY}, BatchLen), zs \in SeqsUpTo({PZ}, BatchLen) :
          /\ \A i \in 1..Len(xs) : InDomain(xs[i])
          /\ AddPoints(ids, xs, ys, zs)
          /\ hist' = IF res'.err = "none"
                     THEN [hist EXCEPT !.puts = @ \o Pairs(ids, xs)]
                     ELSE hist
          /\ UNCHANGED <<cell3d, loader>>
    \/ /\ Clear
       /\ hist' = [puts |-> <<>>, reused |-> hist.reused \/ particles # <<>>]
       /\ UNCHANGED <<cell3d, loader>>
    \/ GetAllCells /\ UNCHANGED <<hist, cell3d, loader>>
    \/ \E id \in QueryIds : GetCellById(id) /\ UNCHANGED <<hist, cell3d, loader>>

SpecReuse == Init /\ [][NextReuse]_vars

\* The module loader on its own: calls of initializeVoro, overlapping or not.
NextLoader ==
    \/ InitializeVoro
    \/ \E i \in 1..MaxCalls : InitializeVoroResume(i)

SpecLoader == Init /\ [][NextLoader]_vars

\* Custom walls that cut: one keeps the part below x = 4 of every cell (in
\* the particle's frame), the other the part below x = -4, which for a
\* particle less than 4 from the lower x face is nothing.
CuttingResponses == {JsCut(1, 16), JsCut(1, -16)}

NextCut ==
    \/ \E id \in Ids, x \in PosX : AddPoint(id, x) /\ UNCHANGED <<hist, cell3d, loader>>
    \/ \E r \in CuttingResponses : AddWallJS(r) /\ UNCHANGED <<hist, cell3d, loader>>
    \/ GetAllCells /\ UNCHANGED <<hist, cell3d, loader>>

SpecCut == Init /\ [][NextCut]_vars

\* ---------------------------------------------------------- order of calls
RECURSIVE WallLog(_, _, _, _, _)
\* The cut_cell calls wall_list::apply_walls makes for a cell c of a particle
\* at x, from the j-th wall on: one per wall, with the particle's position,
\* until a call does not return true.
WallLog(W, j, c, x, env) ==
    IF j > Len(W) THEN <<>>
    ELSE LET r == CutCell(W[j], c, x, env) IN
         <<[kind |-> "wall", wall |-> j, args |-> <<x, PY, PZ>>]>>
         \o (IF r.st = "true" THEN WallLog(W, j + 1, r.c, x, env) ELSE <<>>)

\* What compute_cell does for the i-th particle: the wall calls, then, if
\* they all returned true, the cuts by the neighbors.
CellLog(P, W, i, env) ==
    WallLog(W, 1, InitCell(P[i].x), P[i].x, env)
    \o (IF ApplyWalls(W, 1, InitCell(P[i].x), P[i].x, env).st = "true"
        THEN <<[kind |-> "neighbors", wall |-> 0, args |-> <<P[i].x, PY, PZ>>]>>
        ELSE <<>>)

\* getAllCells with hist recording, particle by particle, what the call did.
GetAllCellsLogged ==
    /\ GetAllCells
    /\ \E env \in EnvsFor(walls) :
         /\ res' = Result("getAllCells", NoArg,
                          GetAllCellsOut(particles, walls, env).err,
                          GetAllCellsOut(particles, walls, env).out)
         /\ hist' = [calls |-> [k \in 1..Len(particles) |->
                                  CellLog(particles, walls, k, env)]]
    /\ UNCHANGED <<cell3d, loader>>

NextOrder ==
    \/ \E id \in Ids, x \in PosX : AddPoint(id, x) /\ UNCHANGED <<hist, cell3d, loader>>
    \/ \E r \in GoodResponses : AddWallJS(r) /\ UNCHANGED <<hist, cell3d, loader>>
    \/ GetAllCellsLogged

SpecOrder == Init /\ [][NextOrder]_vars

\* ------------------------------------------------------------ repeated ids
\* A built-in wall that keeps x > 3: with particles at x = 1 and x = 5 the
\* cell of the first is empty and the cell of the second is not.
DupWalls == {[n |-> -1, a |-> -12]}

NextDup ==
    \/ \E id \in Ids, x \in PosX : AddPoint(id, x) /\ UNCHANGED <<hist, cell3d, loader>>
    \/ \E ids \in SeqsUpTo(BatchIds, BatchLen), xs \in BatchXs,
          ys \in SeqsUpTo({PY}, BatchLen), zs \in SeqsUpTo({PZ}, BatchLen) :
          AddPoints(ids, xs, ys, zs) /\ UNCHANGED <<hist, cell3d, loader>>
    \/ \E w \in DupWalls : AddWallPlane(w.n, w.a) /\ UNCHANGED <<hist, cell3d, loader>>
    \/ GetAllCells /\ UNCHANGED <<hist, cell3d, loader>>
    \/ \E id \in QueryIds : GetCellById(id) /\ UNCHANGED <<hist, cell3d, loader>>

SpecDup == Init /\ [][NextDup]_vars

\* ------------------------------------------------------------ lookup by id
RECURSIVE ByIdLog(_, _, _, _, _)
\* The particles, by their place in the iteration, that getCellById calls
\* compute_cell for, from the k-th on.
ByIdLog(P, W, id, k, env) ==
    IF k > Len(P) THEN <<>>
    ELSE IF P[k].id # id THEN ByIdLog(P, W, id, k + 1, env)
    ELSE <<k>> \o (IF ComputeCell(P, W, k, env).st = "false"
                   THEN ByIdLog(P, W, id, k + 1, env)
                   ELSE <<>>)

\* getCellById with hist recording which cells the call computed.
GetCellByIdLogged(id) ==
    /\ GetCellById(id)
    /\ \E env \in EnvsFor(walls), cell \in DefaultCells :
         /\ res' = Result("getCellById", id,
                          GetCellByIdOut(particles, walls, id, env, cell).err,
                          GetCellByIdOut(particles, walls, id, env, cell).out)
         /\ hist' = [computed |-> ByIdLog(particles, walls, id, 1, env)]
    /\ UNCHANGED <<cell3d, loader>>

NextById ==
    \/ \E id \in Ids, x \in PosX : AddPoint(id, x) /\ UNCHANGED <<hist, cell3d, loader>>
    \/ \E r \in GoodResponses : AddWallJS(r) /\ UNCHANGED <<hist, cell3d, loader>>
    \/ GetAllCells /\ UNCHANGED <<hist, cell3d, loader>>
    \/ \E id \in QueryIds : GetCellByIdLogged(id)

SpecById == Init /\ [][NextById]_vars

\* ------------------------------------------------- diagonal configuration
\* A second exact configuration: the particles lie on the body diagonal of
\* the domain, a particle of x = k standing for the position (k,k,k), and
\* no wall is registered.  Every bisector is then normal to (1,1,1) and a
\* cell is the part lo < u < hi of the domain box, u being X+Y+Z relative
\* to the particle.
DiagX == {4, 12, 20, 36}

\* nlo and nhi are the ids of the particles whose bisectors made the
\* faces at lo and hi; there is no such face until a bisector cuts.
InitCellDiag(k) ==
    [lo |-> (minX + minY + minZ) - 3 * k,
     hi |-> (maxX + maxY + maxZ) - 3 * k,
     nlo |-> 0, nhi |-> 0]

RECURSIVE CutNeighborsDiag(_, _, _, _)
\* The bisector planes of the other particles: for the particle at
\* (j,j,j) the normal is (j-k)(1,1,1) and rsq is 3(j-k)^2.
CutNeighborsDiag(P, i, k, c) ==
    IF k > Len(P) THEN [st |-> "true", c |-> c]
    ELSE IF k = i THEN CutNeighborsDiag(P, i, k + 1, c)
    ELSE LET n == P[k].x - P[i].x
             r == Plane(c, n, 3 * n * n, P[k].id)
         IN  IF r.ok THEN CutNeighborsDiag(P, i, k + 1, r.c)
             ELSE [st |-> "false", c |-> c]

ComputeCellDiag(P, i) == CutNeighborsDiag(P, i, 1, InitCellDiag(P[i].x))

Cube(x) == IF x > 0 THEN x * x * x ELSE 0

\* Six times the volume of the part X+Y+Z < t of a box with sides a, b, c,
\* t counted from the box's lowest corner.
SixVolumeBelow(t, a, b, c) ==
    Cube(t) - Cube(t - a) - Cube(t - b) - Cube(t - c)
    + Cube(t - a - b) + Cube(t - a - c) + Cube(t - b - c)
    - Cube(t - a - b - c)

\* u counted from the box's lowest corner, for the particle at (k,k,k)
FromCorner(u, k) == u + 3 * k - (minX + minY + minZ)

\* voronoicell::volume of a diagonal cell
VolumeDiag(c, k) ==
    LET a == maxX - minX
        b == maxY - minY
        d == maxZ - minZ
    IN  (SixVolumeBelow(FromCorner(c.hi, k), a, b, d)
           - SixVolumeBelow(FromCorner(c.lo, k), a, b, d)) \div 6

\* voronoicell_neighbor::neighbors of a diagonal cell: the markers -1..-6
\* of the walls of the box that keep a face (x min, x max, y min, y max,
\* z min, z max), then the ids of the bisector faces.  (The order of the
\* faces is not modelled.)
NeighborsDiag(c, k) ==
    LET lo == FromCorner(c.lo, k)
        hi == FromCorner(c.hi, k)
        a == maxX - minX
        b == maxY - minY
        d == maxZ - minZ
        Keeps(from, to) == lo < to /\ hi > from
        init == InitCellDiag(k)
    IN  (IF Keeps(0, b + d) THEN <<-1>> ELSE <<>>)
        \o (IF Keeps(a, a + b + d) THEN <<-2>> ELSE <<>>)
        \o (IF Keeps(0, a + d) THEN <<-3>> ELSE <<>>)
        \o (IF Keeps(b, a + b + d) THEN <<-4>> ELSE <<>>)
        \o (IF Keeps(0, a + b) THEN <<-5>> ELSE <<>>)
        \o (IF Keeps(d, a + b + d) THEN <<-6>> ELSE <<>>)
        \o (IF c.lo > init.lo THEN <<c.nlo>> ELSE <<>>)
        \o (IF c.hi < init.hi THEN <<c.nhi>> ELSE <<>>)

\* An extraction that does not ask for the neighbors.
ExtractCellDiagNoNeighbors(c, p) ==
    [id |-> p.id,
     position |-> <<p.x, p.x, p.x>>,
     volume |-> VolumeDiag(c, p.x),
     neighbors |-> <<>>]

\* VoronoiContext3D::extract_cell, for a diagonal cell: id, position,
\* volume and neighbors (vertices, faces and edges are left out).
ExtractCellDiag(c, p) ==
    [id |-> p.id,
     position |-> <<p.x, p.x, p.x>>,
     volume |-> VolumeDiag(c, p.x),
     neighbors |-> NeighborsDiag(c, p.x)]

RECURSIVE AllCellsDiagFrom(_, _, _)
\* The do/while of getAllCells
AllCellsDiagFrom(P, k, cells) ==
    IF k > Len(P) THEN cells
    ELSE LET r == ComputeCellDiag(P, k) IN
         IF r.st = "true"
         THEN AllCellsDiagFrom(P, k + 1, Append(cells, ExtractCellDiag(r.c, P[k])))
         ELSE AllCellsDiagFrom(P, k + 1, cells)

\* VoronoiContext3D::getAllCells on the diagonal configuration
GetAllCellsDiag ==
    /\ walls = <<>>
    /\ res' = Result("getAllCells", NoArg, "none", AllCellsDiagFrom(particles, 1, <<>>))
    /\ UNCHANGED <<particles, walls>>

NextDiag ==
    \/ \E id \in Ids, k \in DiagX : AddPoint(id, k) /\ UNCHANGED <<hist, cell3d, loader>>
    \/ Clear /\ UNCHANGED <<hist, cell3d, loader>>
    \/ GetAllCellsDiag /\ UNCHANGED <<hist, cell3d, loader>>

SpecDiag == Init /\ [][NextDiag]_vars

\* ----------------------------------------------------- the standalone cell
\* VoronoiCell3D holds one voro::voronoicell around the origin.  Lengths are
\* in twenty-fourths here (the unit box is [0,24]^3), and every cut is the
\* bisector of the origin and a point (k,k,k), so that the cell is the part
\* lo < X+Y+Z < hi of its box and its volume is an integer.
UnitBox == <<0, 24, 0, 24, 0, 24>>

ShiftedBox == <<24, 48, 0, 24, 0, 24>>

DoubleBox == <<0, 48, 0, 48, 0, 48>>

Boxes == {UnitBox, ShiftedBox, DoubleBox}

\* The points cutPlane is called with: (0.5,0.5,0.5), (1,1,1), (2,2,2),
\* (-1,-1,-1) and the zero vector.
HalfPoint == <<12, 12, 12>>

ZeroPoint == <<0, 0, 0>>

CutPoints == {HalfPoint, <<24, 24, 24>>, <<48, 48, 48>>, <<-24, -24, -24>>,
              ZeroPoint}

LowCorner(b) == b[1] + b[3] + b[5]

HighCorner(b) == b[2] + b[4] + b[6]

\* voronoicell::init(xmin,xmax,ymin,ymax,zmin,zmax)
InitBoxCell(b) ==
    [init |-> TRUE, box |-> b, lo |-> LowCorner(b), hi |-> HighCorner(b)]

\* voronoicell::plane(x,y,z): rsq = x*x+y*y+z*z, the part v.(x,y,z) < rsq/2
\* is kept.  When no vertex is strictly inside (the zero vector included: no
\* vertex has v.0 < 0) it returns false and the cell is left as it was.
PlaneXYZ(c, p) ==
    IF p = ZeroPoint
    THEN [ok |-> FALSE, c |-> c]
    ELSE LET r == Plane([lo |-> c.lo, hi |-> c.hi, nlo |-> 0, nhi |-> 0],
                        p[1], 3 * p[1] * p[1], 0)
         IN  [ok |-> r.ok, c |-> [c EXCEPT !.lo = r.c.lo, !.hi = r.c.hi]]

\* voronoicell::volume()
Volume3D(c) ==
    LET b == c.box
        s == LowCorner(b)
    IN  (SixVolumeBelow(c.hi - s, b[2] - b[1], b[4] - b[3], b[6] - b[5])
           - SixVolumeBelow(c.lo - s, b[2] - b[1], b[4] - b[3], b[6] - b[5]))
        \div 6

Sum3(v) == v[1] + v[2] + v[3]

Corners(b) == {<<x, y, z>> : x \in {b[1], b[2]}, y \in {b[3], b[4]},
                             z \in {b[5], b[6]}}

\* The points where the plane X+Y+Z = t crosses the box's edges strictly
\* between their ends.
Crossings(b, t) ==
    {[v EXCEPT ![i] = @ + (t - Sum3(v))] :
        <<v, i>> \in {w \in Corners(b) \X (1..3) :
                        /\ w[1][w[2]] = b[2 * w[2] - 1]
                        /\ Sum3(w[1]) < t
                        /\ t < Sum3(w[1]) + b[2 * w[2]] - b[2 * w[2] - 1]}}

VertexSet(c) ==
    {v \in Corners(c.box) : c.lo <= Sum3(v) /\ Sum3(v) <= c.hi}
    \cup (IF c.lo > LowCorner(c.box) THEN Crossings(c.box, c.lo) ELSE {})
    \cup (IF c.hi < HighCorner(c.box) THEN Crossings(c.box, c.hi) ELSE {})

PointLess(a, b) ==
    \/ a[1] < b[1]
    \/ a[1] = b[1] /\ a[2] < b[2]
    \/ a[1] = b[1] /\ a[2] = b[2] /\ a[3] < b[3]

RECURSIVE SortedPoints(_)
SortedPoints(V) ==
    IF V = {} THEN <<>>
    ELSE LET m == CHOOSE a \in V : \A b \in V \ {a} : PointLess(a, b)
         IN  <<m>> \o SortedPoints(V \ {m})

\* voronoicell::vertices(0,0,0,v), listed here in lexicographic order.
Vertices3D(c) == SortedPoints(VertexSet(c))

\* VoronoiCell3D::getCell: position, volume and vertices are filled; id is
\* never assigned and faces, edges and neighbors stay empty.
GetCellOut(c, id) ==
    [id |-> id, position |-> ZeroPoint, volume |-> Volume3D(c),
     vertices |-> Vertices3D(c), faces |-> <<>>, edges |-> <<>>,
     neighbors |-> <<>>]

InitBox(b) ==
    /\ cell3d' = InitBoxCell(b)
    /\ res' = Result("initBox", b, "none", NoOut)
    /\ UNCHANGED <<particles, walls, hist, loader>>

CutPlane(p) ==
    /\ cell3d.init
    /\ LET r == PlaneXYZ(cell3d, p) IN
         /\ cell3d' = r.c
         /\ res' = Result("cutPlane", p, "none", r.ok)
    /\ UNCHANGED <<particles, walls, hist, loader>>

\* The overload with rsq is commented out and no cutPlaneR is bound: the
\* call is a TypeError of the JavaScript engine.
CutPlaneR(p, rsq) ==
    /\ cell3d.init
    /\ res' = Result("cutPlaneR", <<p, rsq>>, "TypeError", NoOut)
    /\ UNCHANGED <<particles, walls, hist, cell3d, loader>>

GetCell ==
    /\ cell3d.init
    /\ \E id \in Indeterminate :
         res' = Result("getCell", NoArg, "none", GetCellOut(cell3d, id))
    /\ UNCHANGED <<particles, walls, hist, cell3d, loader>>

Rsqs == {432, 864}

NextCell ==
    \/ \E b \in Boxes : InitBox(b)
    \/ \E p \in CutPoints : CutPlane(p)
    \/ \E p \in CutPoints, rsq \in Rsqs : CutPlaneR(p, rsq)
    \/ GetCell

SpecCell == Init /\ [][NextCell]_vars

\* ------------------------------------------------------------ construction
\* The constructor takes the six bounds and the three periodicity flags and
\* hands them to voro::container with a 6x6x6 grid; neither it nor the
\* container looks at the order of the bounds.
CtorBounds == [1..6 -> {minX, maxX}]

CtorFlags == [1..3 -> BOOLEAN]

Construct(b, per) ==
    /\ particles' = <<>>
    /\ walls' = <<>>
    /\ res' = Result("new", [bounds |-> b, periodic |-> per], "none", NoOut)
    /\ UNCHANGED <<hist, cell3d, loader>>

NextCtor == \E b \in CtorBounds, per \in CtorFlags : Construct(b, per)

SpecCtor == Init /\ [][NextCtor]_vars

\* ------------------------------------------------------------- properties
HasId(id) == \E k \in 1..Len(particles) : particles[k].id = id

EmptyVectors(cell) ==
    /\ cell.vertices = <<>>
    /\ cell.faces = <<>>
    /\ cell.edges = <<>>
    /\ cell.neighbors = <<>>

\* C1: getCellById for an id that no particle of the container carries
\* returns, without raising an error, a cell with id 0, volume 0 and no
\* vertices, faces, edges or neighbors.
C1_MissIsZeroCell ==
    (res.op = "getCellById" /\ ~HasId(res.arg))
        => /\ res.err = "none"
           /\ res.out.id = 0
           /\ res.out.volume = 0
           /\ EmptyVectors(res.out)

\* C2: an addPoints call whose arrays differ in length raises an error and
\* inserts nothing: the particles are those of before the call.
C2_MismatchInsertsNothing ==
    [][(res'.op = "addPoints" /\ ~res'.arg.sameLength)
          => (res'.err = "runtime_error" /\ particles' = particles)]_vars

\* A mismatched addPoints has raised on a container that holds particles.
C2_Witness ==
    /\ res.op = "addPoints"
    /\ ~res.arg.sameLength
    /\ res.err = "runtime_error"
    /\ Len(particles) > 0

\* The miss sentinel: id 0, volume 0, no vertices, faces, edges, neighbors.
IsSentinel(r) ==
    /\ r.err = "none"
    /\ r.out.id = 0
    /\ r.out.volume = 0
    /\ EmptyVectors(r.out)

\* C3: clear() removes every particle (getAllCells is then empty and
\* getCellById returns the miss sentinel for every id) and leaves the
\* registered walls as they were, in the same order.
C3_ClearEmptiesKeepsWalls ==
    [][res'.op = "clear"
          => /\ particles' = <<>>
             /\ walls' = walls
             /\ \A env \in EnvsFor(walls') :
                  /\ GetAllCellsOut(particles', walls', env).out = <<>>
                  /\ \A id \in QueryIds, cell \in DefaultCells :
                       IsSentinel(GetCellByIdOut(particles', walls', id, env, cell))]_vars

AllDecline(W) ==
    /\ W # <<>>
    /\ \A k \in 1..Len(W) : W[k].kind = "js" /\ W[k].resp = JsDecline

\* C4: with JavaScript walls that always answer {cut: false}, getAllCells
\* and getCellById return what they return for the same particles without
\* any wall.
C4_DecliningWallIsNoWall ==
    AllDecline(walls)
        => \A env \in EnvsFor(<<>>) :
             /\ res.op = "getAllCells"
                  => /\ res.err = "none"
                     /\ res.out = GetAllCellsOut(particles, <<>>, env).out
             /\ res.op = "getCellById"
                  => /\ res.err = "none"
                     /\ \E cell \in DefaultCells :
                          res.out = GetCellByIdOut(particles, <<>>, res.arg, env, cell).out

HasMalformed(W) ==
    \E k \in 1..Len(W) : W[k].kind = "js" /\ Malformed(W[k].resp)

WellFormedOnly(W) ==
    SelectSeq(W, LAMBDA w : ~(w.kind = "js" /\ Malformed(w.resp)))

\* C5: a JavaScript wall whose cut_cell answers undefined, null, an object
\* without cut, or cut: true without numeric nx, ny, nz, d raises no error
\* and cuts nothing, and the other walls still apply: getAllCells returns
\* what it returns with the malformed walls left out.
C5_MalformedIsNoCut ==
    (res.op = "getAllCells" /\ HasMalformed(walls))
        => /\ res.err = "none"
           /\ \E env \in EnvsFor(WellFormedOnly(walls)) :
                res.out = GetAllCellsOut(particles, WellFormedOnly(walls), env).out

\* Every particle carrying id has its cell emptied by a built-in wall.
EmptiedByWall(id) ==
    /\ walls # <<>>
    /\ \A k \in 1..Len(walls) : walls[k].kind = "plane"
    /\ \A k \in 1..Len(particles) :
         particles[k].id = id =>
           \A env \in { e \in EnvsFor(walls) : e.dz = "intact" } :
             ComputeCell(particles, walls, k, env).st = "false"

\* C6: getCellById for a particle that is in the container and whose cell a
\* wall reduced to nothing returns something a caller can tell from what it
\* returns for an id that no particle carries.
C6_EmptiedCellIsNotAMiss ==
    (res.op = "getCellById" /\ res.err = "none"
       /\ HasId(res.arg) /\ EmptiedByWall(res.arg))
        => res.out \notin DefaultCells

RECURSIVE MaxId(_)
MaxId(P) ==
    IF Len(P) = 1 THEN P[1].id
    ELSE LET m == MaxId(Tail(P)) IN IF P[1].id > m THEN P[1].id ELSE m

\* C7: relaxVoronoi returns an array of length (largest id in the
\* container) + 1 whose entry at a particle's id is the centroid of that
\* particle's cell, for every particle whose cell is computed.
C7_RelaxIndexedById ==
    (res.op = "relaxVoronoi" /\ particles # <<>>)
        => /\ res.err = "none"
           /\ Len(res.out) = MaxId(particles) + 1
           /\ \E env \in EnvsFor(walls) :
                \A k \in 1..Len(particles) :
                  LET r == ComputeCell(particles, walls, k, env) IN
                  r.st = "true" => res.out[particles[k].id + 1] = Centroid(r.c)

InBounds(pt) ==
    /\ pt[1] >= minX /\ pt[1] <= maxX
    /\ pt[2] >= minY /\ pt[2] <= maxY
    /\ pt[3] >= minZ /\ pt[3] <= maxZ

\* The centroid of the k-th particle's cell in the frame of the inserted
\* positions.
GlobalCentroid(P, W, k, env) ==
    LET c == Centroid(ComputeCell(P, W, k, env).c) IN
    <<P[k].x + c[1], PY + c[2], PZ + c[3]>>

\* C8: every point relaxVoronoi returns lies within the domain bounds on
\* all three axes, and the point of a particle is the centroid of its cell
\* in the global frame of the inserted positions.
C8_RelaxedPointsAreGlobal ==
    (res.op = "relaxVoronoi" /\ res.err = "none" /\ walls = <<>>)
        => /\ \A j \in 1..Len(res.out) : InBounds(res.out[j])
           /\ \A env \in EnvsFor(walls) :
                \A k \in 1..Len(particles) :
                  particles[k].id < Len(res.out)
                    => res.out[particles[k].id + 1]
                         = GlobalCentroid(particles, walls, k, env)

\* C9: without walls, getAllCells returns exactly one cell per particle in
\* the container, carrying the particle's id, its inserted position and a
\* volume greater than 0.
C9_OneCellPerParticle ==
    (res.op = "getAllCells" /\ walls = <<>>)
        => /\ res.err = "none"
           /\ Len(res.out) = Len(particles)
           /\ \A k \in 1..Len(particles) :
                /\ res.out[k].id = particles[k].id
                /\ res.out[k].position = <<particles[k].x, PY, PZ>>
                /\ res.out[k].volume > 0

\* getAllCells has answered for a full container without walls.
C9_Witness ==
    /\ res.op = "getAllCells"
    /\ walls = <<>>
    /\ Len(particles) = MaxParticles
    /\ Len(res.out) = MaxParticles

\* The container a fresh construction followed by the puts of hist gives.
FreshWith(puts) ==
    PutAll(<<>>, [k \in 1..Len(puts) |-> puts[k].id],
                 [k \in 1..Len(puts) |-> puts[k].x])

\* C10: after clear() and the insertion of particles, getAllCells returns
\* what it returns for a freshly constructed container into which the same
\* particles were inserted.
C10_ClearedIsFresh ==
    res.op = "getAllCells"
        => \A env \in EnvsFor(walls) :
             /\ res.err = "none"
             /\ res.out = GetAllCellsOut(FreshWith(hist.puts), walls, env).out

\* getAllCells has answered with cells on a container that was emptied by
\* clear() while it held particles and was filled again.
C10_Witness ==
    /\ res.op = "getAllCells"
    /\ hist.reused
    /\ Len(hist.puts) > 0
    /\ Len(res.out) > 0

\* C11: initializeVoro resolves with an API object exposing the four
\* constructors, and every call made once a call has resolved resolves with
\* the object that call resolved with, without creating a module instance.
C11_LoaderCachesApi ==
    \A i \in 1..Len(loader.calls) :
      LET c == loader.calls[i] IN
      c.pc = "resolved"
        => /\ c.out.keys =
                {"VoronoiContext3D", "VoronoiCell3D", "VectorInt", "VectorDouble"}
           /\ c.seen # Null => (c.out = c.seen /\ c.module = 0)

DomainVolume == (maxX - minX) * (maxY - minY) * (maxZ - minZ)

\* C12: without walls, the cell of a single particle is the whole domain
\* box: its volume is the domain's (1000 for [0,10]^3), it has exactly 8
\* vertices and exactly 6 faces.
C12_SingleParticleWholeBox ==
    (res.op = "getAllCells" /\ walls = <<>> /\ Len(particles) = 1)
        => /\ res.err = "none"
           /\ Len(res.out) = 1
           /\ res.out[1].volume = DomainVolume
           /\ Len(res.out[1].vertices) = 8
           /\ Len(res.out[1].faces) = 6

\* getAllCells has answered for the single particle at (1,1,1).
C12_Witness ==
    /\ res.op = "getAllCells"
    /\ walls = <<>>
    /\ Len(particles) = 1
    /\ particles[1].x = 4
    /\ Len(res.out) = 1
    /\ res.out[1].position = <<4, 4, 4>>

\* How often id occurs in the sequence ns
Count(ns, id) == Cardinality({ j \in 1..Len(ns) : ns[j] = id })

\* C13: with no walls and exactly two particles, at (1,1,1) and (9,9,9)
\* or elsewhere on the diagonal, the two volumes sum to the domain's
\* volume and each cell lists the other particle's id exactly once among
\* its neighbors, every other entry being a domain-boundary marker.
C13_TwoParticlesShareOneFace ==
    (res.op = "getAllCells" /\ Len(particles) = 2)
        => /\ Len(res.out) = 2
           /\ res.out[1].volume + res.out[2].volume = DomainVolume
           /\ \A i \in 1..2 :
                LET ns == res.out[i].neighbors
                    other == particles[3 - i].id
                IN  /\ res.out[i].id = particles[i].id
                    /\ Count(ns, other) = 1
                    /\ \A j \in 1..Len(ns) : ns[j] # other => ns[j] < 0

\* getAllCells has answered for the two particles at (1,1,1) and (9,9,9).
C13_Witness ==
    /\ res.op = "getAllCells"
    /\ Len(particles) = 2
    /\ particles[1].x = 4
    /\ particles[2].x = 36
    /\ Len(res.out) = 2
    /\ res.out[1].volume = DomainVolume \div 2

RECURSIVE SumVolumes(_)
SumVolumes(cells) ==
    IF cells = <<>> THEN 0 ELSE Head(cells).volume + SumVolumes(Tail(cells))

\* C14: without walls, the volumes of the cells getAllCells returns for a
\* non-empty set of particles sum to the volume of the domain box.
C14_VolumesCoverDomain ==
    (res.op = "getAllCells" /\ walls = <<>> /\ particles # <<>>)
        => /\ res.err = "none"
           /\ SumVolumes(res.out) = DomainVolume

\* getAllCells has answered for a full container without walls, with
\* cells smaller than the domain.
C14_Witness ==
    /\ res.op = "getAllCells"
    /\ walls = <<>>
    /\ Len(particles) = MaxParticles
    /\ Len(res.out) = MaxParticles
    /\ \A k \in 1..Len(res.out) : res.out[k].volume < DomainVolume

\* C15: on a cell just initialised as the unit box, cutPlane(0.5,0.5,0.5)
\* returns true and leaves exactly half of the initial volume.
C15_HalfPointCutHalves ==
    [][(/\ res.op = "initBox"
        /\ res.arg = UnitBox
        /\ res'.op = "cutPlane"
        /\ res'.arg = HalfPoint)
       => (/\ res'.err = "none"
           /\ res'.out = TRUE
           /\ 2 * Volume3D(cell3d') = Volume3D(cell3d))]_vars

\* The bisector of the origin and (k,k,k) is the plane X+Y+Z = 3k/2.
Threshold(p) == (3 * p[1]) \div 2

\* No point of the cell lies strictly inside the kept half-space.
NothingKept(c, p) ==
    IF p[1] > 0 THEN c.lo >= Threshold(p) ELSE c.hi <= Threshold(p)

\* The whole cell lies inside the kept half-space.
AllKept(c, p) ==
    IF p[1] > 0 THEN c.hi <= Threshold(p) ELSE c.lo >= Threshold(p)

\* C16: cutPlane returns false exactly when the cut removes the cell
\* entirely, and the cell is then empty; a cut that keeps every vertex
\* changes nothing; the volume never grows.
C16_FalseMeansEmptyCell ==
    [][(res'.op = "cutPlane" /\ res'.arg # ZeroPoint)
       => (/\ res'.out = FALSE <=> NothingKept(cell3d, res'.arg)
           /\ res'.out = FALSE
                => Volume3D(cell3d') = 0 /\ VertexSet(cell3d') = {}
           /\ AllKept(cell3d, res'.arg) => cell3d' = cell3d
           /\ Volume3D(cell3d') <= Volume3D(cell3d))]_vars

BoxVolume(b) == (b[2] - b[1]) * (b[4] - b[3]) * (b[6] - b[5])

\* C17: getCell right after initBox, whatever was cut before, returns an
\* object with the fields id, position, volume, vertices, edges, faces and
\* neighbors, with id 0, position (0,0,0), the volume of the box, 8 vertices
\* and 6 faces.
C17_FreshBoxCellData ==
    [][(res.op = "initBox" /\ res'.op = "getCell")
       => (/\ res'.err = "none"
           /\ DOMAIN res'.out = {"id", "position", "volume", "vertices",
                                  "edges", "faces", "neighbors"}
           /\ res'.out.id = 0
           /\ res'.out.position = ZeroPoint
           /\ res'.out.volume = BoxVolume(res.arg)
           /\ Len(res'.out.vertices) = 8
           /\ Len(res'.out.faces) = 6)]_vars

\* C19: a cut with a zero-length normal, cutPlane(0,0,0), fails with an
\* error and leaves the cell as it was.
C19_ZeroNormalFailsFast ==
    [][(res'.op = "cutPlane" /\ res'.arg = ZeroPoint)
       => (res'.err # "none" /\ cell3d' = cell3d)]_vars

\* The bounds of an axis are in order when the minimum is below the maximum.
InvalidBounds(b) == b[1] >= b[2] \/ b[3] >= b[4] \/ b[5] >= b[6]

\* C18: constructing a context whose bounds are not in order fails with an
\* error at construction.
C18_InvalidBoundsRejected ==
    (res.op = "new" /\ res.arg # NoArg /\ InvalidBounds(res.arg.bounds))
        => res.err # "none"

RECURSIVE WallRemovesCell(_, _, _, _)
\* Some wall of W[k..], applied in order to the cell c of a particle at x,
\* leaves no point of the cell inside its kept half-space.
WallRemovesCell(W, k, c, x) ==
    IF k > Len(W) THEN FALSE
    ELSE LET w == W[k] IN
         IF w.kind = "js" /\ ~(w.resp.tag = "object" /\ w.resp.cut = "true"
                                 /\ w.resp.num)
         THEN WallRemovesCell(W, k + 1, c, x)
         ELSE LET r == IF w.kind = "js"
                       THEN Plane(c, w.resp.nx, w.resp.d, 0)
                       ELSE Plane(c, w.n, 2 * (w.a - x * w.n), w.id)
              IN  ~r.ok \/ WallRemovesCell(W, k + 1, r.c, x)

HasEntryAt(x) ==
    \E j \in 1..Len(res.out) : res.out[j].position = <<x, PY, PZ>>

\* C20: getAllCells has no entry for a particle whose whole cell a wall
\* removes, and has an entry for every other particle.
C20_RemovedCellHasNoEntry ==
    (res.op = "getAllCells" /\ res.err = "none")
        => \A k \in 1..Len(particles) :
             LET x == particles[k].x IN
             WallRemovesCell(walls, 1, InitCell(x), x) <=> ~HasEntryAt(x)

RECURSIVE FaceLoops(_, _)
\* The vertex loops a packed face stream holds: each face is its number of
\* vertices followed by that many vertex indices.
FaceLoops(fv, off) ==
    IF off >= Len(fv) THEN <<>>
    ELSE <<[j \in 1..fv[off + 1] |-> fv[off + 1 + j]]>>
         \o FaceLoops(fv, off + 1 + fv[off + 1])

\* C21: in every extracted cell faces[i] is the vertex loop of the i-th
\* face, in order, and every entry is an index into the cell's vertices; the
\* vertex counts of the packed stream are not among the entries.
C21_FacesAreVertexLoops ==
    (res.op = "getAllCells" /\ res.err = "none")
        => \A k \in 1..Len(res.out) :
             /\ res.out[k].faces = FaceLoops(FaceVertices, 0)
             /\ \A i \in 1..Len(res.out[k].faces) :
                  \A j \in 1..Len(res.out[k].faces[i]) :
                    res.out[k].faces[i][j] \in 0..(Len(res.out[k].vertices) - 1)

\* The unordered pairs of cyclically consecutive entries of the loops F,
\* smaller entry first.
LoopPairs(F) ==
    UNION { { LET a == F[f][j]
                  b == F[f][(j % Len(F[f])) + 1]
              IN  IF a > b THEN <<b, a>> ELSE <<a, b>>
              : j \in 1..Len(F[f]) } : f \in 1..Len(F) }

\* C22: the edges of an extracted cell are the pairs of cyclically
\* consecutive vertex indices of its faces, closing pair included, each
\* once, smaller index first, in ascending lexicographic order.
C22_EdgesAreFacePairs ==
    (res.op = "getAllCells" /\ res.err = "none")
        => \A k \in 1..Len(res.out) :
             LET E == res.out[k].edges
                 T == LoopPairs(res.out[k].faces)
             IN  /\ {E[i] : i \in 1..Len(E)} = T
                 /\ Len(E) = Cardinality(T)
                 /\ \A i \in 1..Len(E) : \A j \in (i + 1)..Len(E) :
                      EdgeLess(E[i], E[j])

\* A cell was returned in which two faces share a pair and a closing pair
\* is not a consecutive pair of any face.
C22_Witness ==
    /\ res.op = "getAllCells"
    /\ res.err = "none"
    /\ \E k \in 1..Len(res.out) :
         LET F == res.out[k].faces IN
         /\ \E f \in 1..Len(F), g \in 1..Len(F) :
              f # g /\ LoopPairs(<<F[f]>>) \cap LoopPairs(<<F[g]>>) # {}
         /\ \E f \in 1..Len(F) :
              LET a == F[f][Len(F[f])]
                  b == F[f][1]
                  e == IF a > b THEN <<b, a>> ELSE <<a, b>>
              IN  \A g \in 1..Len(F) : \A j \in 1..(Len(F[g]) - 1) :
                    e # (IF F[g][j] > F[g][j + 1]
                         THEN <<F[g][j + 1], F[g][j]>>
                         ELSE <<F[g][j], F[g][j + 1]>>)

Markers == {-1, -2, -3, -4, -5, -6}

ParticleIds == {particles[k].id : k \in 1..Len(particles)}

\* The cells a query returned for particles of the container.
ReturnedCells ==
    IF res.op = "getAllCells" /\ res.err = "none"
    THEN {res.out[k] : k \in 1..Len(res.out)}
    ELSE IF res.op = "getCellById" /\ res.err = "none"
            /\ res.out \notin DefaultCells
         THEN {res.out}
         ELSE {}

MaxOf(S) == CHOOSE m \in S : \A n \in S : n <= m

MinOf(S) == CHOOSE m \in S : \A n \in S : m <= n

\* n names what made the face at x = at of the cell of the particle at x:
\* the domain face, a particle whose bisector lies there, or else a wall.
NamesCreator(n, x, at, marker) ==
    IF at \in {minX, maxX} THEN n = marker
    ELSE \/ \E k \in 1..Len(particles) :
              /\ particles[k].x # x
              /\ particles[k].x + x = 2 * at
              /\ n = particles[k].id
         \/ /\ walls # <<>>
            /\ n \notin Markers
            /\ n \notin ParticleIds

\* C23: in every cell returned for a present particle, neighbors has the
\* length of faces and neighbors[i] identifies what created the i-th face: a
\* neighboring particle, a wall, or a face of the domain.
C23_NeighborsNameFaceCreators ==
    \A cl \in ReturnedCells :
        LET xs == {cl.vertices[i][1] : i \in 1..Len(cl.vertices)} IN
        /\ Len(cl.neighbors) = Len(cl.faces)
        /\ cl.neighbors[1] = -5
        /\ cl.neighbors[3] = -3
        /\ cl.neighbors[5] = -4
        /\ cl.neighbors[6] = -6
        /\ NamesCreator(cl.neighbors[2], cl.position[1], MaxOf(xs), -2)
        /\ NamesCreator(cl.neighbors[4], cl.position[1], MinOf(xs), -1)

\* C24: when a particle's cell is computed, every registered wall is applied
\* to it, in registration order, by one cut_cell call with the particle's
\* position, and before the cuts by its neighbors.
C24_EveryWallInOrder ==
    res.op = "getAllCells"
        => \A k \in 1..Len(particles) :
             LET log == hist.calls[k] IN
             /\ Len(log) >= Len(walls)
             /\ \A j \in 1..Len(walls) :
                  /\ log[j].kind = "wall"
                  /\ log[j].wall = j
                  /\ log[j].args = <<particles[k].x, PY, PZ>>
             /\ \A j \in (Len(walls) + 1)..Len(log) : log[j].kind = "neighbors"

Intact == [dz |-> "intact", conv |-> "throw", oob |-> "trap"]

\* The cell of the k-th particle of P is not empty.
NonEmpty(P, W, k) == ComputeCell(P, W, k, Intact).st = "true"

\* The indices, in iteration order, of the particles of P that carry id and
\* have a cell.
Carriers(P, W, id) ==
    {k \in 1..Len(P) : P[k].id = id /\ NonEmpty(P, W, k)}

\* r is what getAllCells returns for P and W: one cell for each particle
\* that has one.
OneCellEach(P, W, r) ==
    /\ Len(r.out) = Cardinality({k \in 1..Len(P) : NonEmpty(P, W, k)})
    /\ \A k \in 1..Len(P) :
         NonEmpty(P, W, k)
           => \E j \in 1..Len(r.out) :
                /\ r.out[j].id = P[k].id
                /\ r.out[j].position = <<P[k].x, PY, PZ>>

\* r is what getCellById returns for P and W: the cell of the first particle
\* that carries the id and has a cell.
FirstCarrier(P, W, r) ==
    Carriers(P, W, r.arg) # {}
      => LET k == MinOf(Carriers(P, W, r.arg))
             all == GetAllCellsOut(P, W, Intact).out
         IN  /\ r.out.id = r.arg
             /\ r.out.position = <<P[k].x, PY, PZ>>
             /\ \E j \in 1..Len(all) : all[j] = r.out

\* C26: adding a particle with an id that is already in the container
\* replaces nothing; getAllCells returns one cell for each particle that has
\* one, and getCellById(id) returns the cell of the first particle, in
\* iteration order, that carries the id and has a cell.
C26_RepeatedIdIsAdditive ==
    [][/\ (res'.op \in {"addPoint", "addPoints"})
            => \A k \in 1..Len(particles) :
                 \E j \in 1..Len(particles') : particles'[j] = particles[k]
       /\ (res'.op = "getAllCells" /\ res'.err = "none")
            => OneCellEach(particles', walls', res')
       /\ (res'.op = "getCellById" /\ res'.err = "none")
            => FirstCarrier(particles', walls', res')]_vars

\* getCellById was asked for an id that two particles carry; the first of
\* them has no cell, and the cell of the second came back.
C26_Witness ==
    /\ res.op = "getCellById"
    /\ res.err = "none"
    /\ Len(particles) = 2
    /\ particles[1].id = res.arg
    /\ particles[2].id = res.arg
    /\ ~NonEmpty(particles, walls, 1)
    /\ NonEmpty(particles, walls, 2)
    /\ res.out.position = <<particles[2].x, PY, PZ>>

\* C27: every write relaxVoronoi makes into its output array, one for each
\* particle that has a cell, uses that particle's id as an index that lies
\* within the array, whose length is the number of particles.
C27_RelaxWritesInRange ==
    res.op = "relaxVoronoi"
        => \A k \in 1..Len(particles) :
             NonEmpty(particles, walls, k)
               => (0 <= particles[k].id /\ particles[k].id < Len(particles))

\* C28: every wall in the container's wall list is a live object, from the
\* return of the call that registered it on.
C28_RegisteredWallsLive ==
    \A k \in 1..Len(walls) : walls[k].live

\* C29: however calls of initializeVoro overlap, createVoroModule is invoked
\* at most once and all calls that have resolved did so with the same API
\* object.
C29_OneModuleForOverlappingCalls ==
    /\ loader.created <= 1
    /\ \A i \in 1..Len(loader.calls), j \in 1..Len(loader.calls) :
         (loader.calls[i].pc = "resolved" /\ loader.calls[j].pc = "resolved")
           => loader.calls[i].out = loader.calls[j].out

\* Exactly one particle carries id, and it has a cell.
SoleCarrier(id) ==
    /\ Cardinality({k \in 1..Len(particles) : particles[k].id = id}) = 1
    /\ Carriers(particles, walls, id) # {}

\* C30: when exactly one particle carries the id and has a cell,
\* getCellById returns the cell that getAllCells lists for that id, and it
\* computes the cell of that particle and of no other.
C30_LookupMatchesListing ==
    (res.op = "getCellById" /\ res.err = "none" /\ SoleCarrier(res.arg))
        => /\ \E env \in EnvsFor(walls) :
                LET all == GetAllCellsOut(particles, walls, env) IN
                /\ all.err = "none"
                /\ \E j \in 1..Len(all.out) :
                     all.out[j].id = res.arg /\ all.out[j] = res.out
           /\ hist.computed = <<MinOf(Carriers(particles, walls, res.arg))>>

\* The lookup found its particle behind another one, in a container with a
\* wall that cut the cell.
C30_Witness ==
    /\ res.op = "getCellById"
    /\ res.err = "none"
    /\ SoleCarrier(res.arg)
    /\ Len(particles) = 2
    /\ particles[2].id = res.arg
    /\ walls # <<>>
    /\ res.out.volume
         < CellByIdFrom(particles, <<>>, res.arg, 1, Intact, res.out).out.volume

====
